---- MODULE Spec2Model ----
(***************************************************************************)
(* Orchestration graph of packages/orchestrator/graph.py: the GraphState   *)
(* record, the four nodes (router, retrieve, synthesize, action), the two  *)
(* implementations of the transition table (the LangGraph graph of         *)
(* build_graph and the inline fallback of run_graph) and the two execution *)
(* modes (run_graph, run_graph_stream).                                    *)
(*                                                                         *)
(* Strings that the code inspects (completion texts, routes, answers,      *)
(* chunks) are sequences of one-character strings, so that strip, lower,   *)
(* split and join are computed as Python computes them.  Strings the code  *)
(* only passes along (queries, ids, fixed progress messages) are opaque.   *)
(***************************************************************************)
EXTENDS Integers, Sequences, FiniteSets, TLC

VARIABLES
    conversations,  \* the conversations dict of the API (main.py:44): id -> conversation
    use_langgraph,  \* TRUE iff "from langgraph.graph import ..." succeeded (graph.py:9-14)
    provider,       \* LLMProvider.provider, read from LLM_PROVIDER (graph.py:44)
    llm_memo,       \* the Completion backend: prompt -> outcome it gave for that prompt
    mode,           \* per run: "idle", "batch" (run_graph) or "stream" (run_graph_stream)
    pc,             \* per run: the statement the run is at
    state,          \* per run: its GraphState
    loc,            \* per run: the locals words and i of run_graph_stream's chunk loop
    events,         \* per run: the events run_graph_stream has yielded so far
    result,         \* per run: the dict run_graph returned
    trace           \* per run: history of node starts, field writes, node ends and yields

vars == <<conversations, use_langgraph, provider, llm_memo, mode, pc, state, loc, events, result, trace>>

----------------------------------------------------------------------------
(* Bounds of the model *)

\* Number of words of the longest text the Completion backend returns.
MaxWords == 12

Runs == {"r1", "r2"}
Queries == {"q1"}
Providers == {"openai", "anthropic", "other"}
\* str(e) of the exceptions a provider call raises
ErrMsgs == {<<"q", "a">>}

----------------------------------------------------------------------------
(* Python string operations, on sequences of characters *)

Whitespace == {" ", "\n", "\t"}

UpperCase == <<"A","B","C","D","E","F","G","H","I","J","K","L","M",
               "N","O","P","Q","R","S","T","U","V","W","X","Y","Z">>
LowerCase == <<"a","b","c","d","e","f","g","h","i","j","k","l","m",
               "n","o","p","q","r","s","t","u","v","w","x","y","z">>

Min(a, b) == IF a <= b THEN a ELSE b

\* the lower-case letter of every upper-case letter
LowerOf ==
    [c \in {UpperCase[k] : k \in 1..Len(UpperCase)} |->
        LowerCase[CHOOSE k \in 1..Len(UpperCase) : UpperCase[k] = c]]

\* str.lower() on one character
lower_char(c) == IF c \in DOMAIN LowerOf THEN LowerOf[c] ELSE c

\* str.lower()
lower(s) == [k \in 1..Len(s) |-> lower_char(s[k])]

\* str.lstrip() and str.rstrip(): drop whitespace from one end
RECURSIVE lstrip(_)
lstrip(s) == IF s # <<>> /\ Head(s) \in Whitespace THEN lstrip(Tail(s)) ELSE s

RECURSIVE rstrip(_)
rstrip(s) ==
    IF s # <<>> /\ s[Len(s)] \in Whitespace THEN rstrip(SubSeq(s, 1, Len(s) - 1)) ELSE s

\* str.strip(): drop leading and trailing whitespace
strip(s) == rstrip(lstrip(s))

\* str.split() without argument, scanning from position k with the words found
\* so far and the word being read
RECURSIVE split_from(_, _, _, _)
split_from(s, k, found, word) ==
    IF k > Len(s)
    THEN IF word = <<>> THEN found ELSE Append(found, word)
    ELSE IF s[k] \in Whitespace
         THEN split_from(s, k + 1, IF word = <<>> THEN found ELSE Append(found, word), <<>>)
         ELSE split_from(s, k + 1, found, Append(word, s[k]))

\* str.split(): the maximal runs of non-whitespace characters, in order
split(s) == split_from(s, 1, <<>>, <<>>)

\* sep.join(parts)
RECURSIVE join(_, _)
join(sep, parts) ==
    IF parts = <<>> THEN <<>>
    ELSE IF Len(parts) = 1 THEN parts[1]
    ELSE parts[1] \o sep \o join(sep, Tail(parts))

\* parts[lo:hi] (0-based, hi exclusive, clipped to the list as Python does)
slice(parts, lo, hi) == SubSeq(parts, lo + 1, Min(hi, Len(parts)))

----------------------------------------------------------------------------
(* Texts *)

LabelQa == <<"q","a">>
LabelSummarize == <<"s","u","m","m","a","r","i","z","e">>
LabelAction == <<"a","c","t","i","o","n">>

\* ['qa', 'summarize', 'action'] of router_node
Labels == {LabelQa, LabelSummarize, LabelAction}

\* "Error calling OpenAI: " and "Error calling Anthropic: "
ErrOpenAI == <<"E","r","r","o","r"," ","c","a","l","l","i","n","g"," ",
               "O","p","e","n","A","I",":"," ">>
ErrAnthropic == <<"E","r","r","o","r"," ","c","a","l","l","i","n","g"," ",
                  "A","n","t","h","r","o","p","i","c",":"," ">>

\* "Route: "
RoutePrefix == <<"R","o","u","t","e",":"," ">>

\* The words "a", "b", "c", ... separated by single spaces, k words and up
RECURSIVE words_from(_)
words_from(k) ==
    IF k > MaxWords THEN <<>>
    ELSE <<LowerCase[k]>> \o (IF k = MaxWords THEN <<>> ELSE <<" ">>) \o words_from(k + 1)

\* Texts the Completion backend answers with
TextQa == <<"q","a">>
TextSummarize == <<" ","S","u","m","m","a","r","i","z","e","\n">>
TextAction == <<"A","C","T","I","O","N">>
TextEmpty == <<>>
TextLong == words_from(1)
TextLines == <<"x","\n","\n","y"," "," ","z">>

Texts == {TextQa, TextSummarize, TextAction, TextEmpty, TextLong, TextLines}

\* What one call of the provider's API does: it returns the text, or raises an
\* exception e with str(e) = text
Outcomes == [ok : {TRUE}, text : Texts] \cup [ok : {FALSE}, text : ErrMsgs]

----------------------------------------------------------------------------
(* LLMProvider *)

\* A call that returned v / a call that raised
Returned(v) == [raised |-> FALSE, value |-> v]
Raised(v) == [raised |-> TRUE, value |-> v]

\* _openai_completion without its try/except: the exception leaves the call
openai_completion_no_except(o) ==
    IF o.ok THEN Returned(o.text) ELSE Raised(o.text)

openai_completion(o) ==
    IF o.ok THEN Returned(o.text) ELSE Returned(ErrOpenAI \o o.text)

anthropic_completion(o) ==
    IF o.ok THEN Returned(o.text) ELSE Returned(ErrAnthropic \o o.text)

completion(prov, o) ==
    IF prov = "openai" THEN openai_completion(o)
    ELSE IF prov = "anthropic" THEN anthropic_completion(o)
    ELSE openai_completion(o)

\* The Completion backend is deterministic: asked the same prompt again, it
\* gives the outcome it gave before
LlmOutcomes(prompt) ==
    IF prompt \in DOMAIN llm_memo THEN {llm_memo[prompt]} ELSE Outcomes

----------------------------------------------------------------------------
(* GraphState and the nodes.  A node is the list of its assignments to the   *)
(* state, in source order, or the exception that left it.                    *)

\* GraphState(org_id, conversation_id, query, tools) after __post_init__
GraphState(org, conv, query, tools) ==
    [org_id |-> org, conversation_id |-> conv, query |-> query,
     route |-> <<>>, retrieved_docs |-> <<>>, answer |-> <<>>,
     sources |-> <<>>, metadata |-> <<>>, tools |-> tools]

\* state.field = value  and  state.field[key] = value
Assign(field, value) == [field |-> field, key |-> "", value |-> value]
AssignKey(field, key, value) == [field |-> field, key |-> key, value |-> value]

apply(s, a) ==
    IF a.key = "" THEN [s EXCEPT ![a.field] = a.value]
    ELSE [s EXCEPT ![a.field] = (a.key :> a.value) @@ @]

RECURSIVE apply_all(_, _)
apply_all(s, assigns) ==
    IF assigns = <<>> THEN s ELSE apply_all(apply(s, Head(assigns)), Tail(assigns))

NodeDone(assigns) == [raised |-> FALSE, assigns |-> assigns]
NodeRaised == [raised |-> TRUE, assigns |-> <<>>]

router_prompt(s) == [system |-> "router", context |-> <<>>, query |-> s.query]

\* router_node without its default: the normalized text is the route
router_node_no_default(s, res) ==
    IF res.raised THEN NodeRaised
    ELSE LET route == lower(strip(res.value))
         IN  NodeDone(<<Assign("route", route), AssignKey("metadata", "route", route)>>)

\* router_node with a process-wide cache of the last classification: once
\* some run has a route, every later router call reuses it
router_node_cached_route(s, res) ==
    IF res.raised THEN NodeRaised
    ELSE LET text == lower(strip(res.value))
             fresh == IF text \notin Labels THEN LabelQa ELSE text
             route == IF \E r \in Runs : state[r].route # <<>>
                      THEN state[CHOOSE r \in Runs : state[r].route # <<>>].route
                      ELSE fresh
         IN  NodeDone(<<Assign("route", route), AssignKey("metadata", "route", route)>>)

router_node(s, res) ==
    IF res.raised THEN NodeRaised
    ELSE LET text == lower(strip(res.value))
             route == IF text \notin Labels THEN LabelQa ELSE text
         IN  NodeDone(<<Assign("route", route), AssignKey("metadata", "route", route)>>)

\* scores are in hundredths: 95 is 0.95
mock_docs ==
    <<[id |-> "doc1",
       content |-> "AutoBrain is a knowledge assistant that helps teams stay organized and informed.",
       source |-> "docs", score |-> 95],
      [id |-> "doc2",
       content |-> "The system uses RAG (Retrieval Augmented Generation) to provide accurate answers.",
       source |-> "docs", score |-> 87]>>

\* retrieve_node over a module-level document list that every call extends:
\* a run that retrieves after another run gets that run's documents too
retrieve_node_accumulating(s) ==
    LET docs == IF \E r \in Runs : state[r].retrieved_docs # <<>>
                THEN mock_docs \o mock_docs ELSE mock_docs
    IN  NodeDone(<<Assign("retrieved_docs", docs),
                   Assign("sources", [k \in 1..Len(docs) |->
                              [id |-> docs[k].id, source |-> docs[k].source,
                               score |-> docs[k].score]])>>)

retrieve_node(s) ==
    NodeDone(<<Assign("retrieved_docs", mock_docs),
               Assign("sources", [k \in 1..Len(mock_docs) |->
                          [id |-> mock_docs[k].id, source |-> mock_docs[k].source,
                           score |-> mock_docs[k].score]])>>)

\* the context is "Document {i+1}: {content}" for each retrieved document, in order
synthesize_prompt(s) ==
    [system |-> "synthesize",
     context |-> [k \in 1..Len(s.retrieved_docs) |-> <<k, s.retrieved_docs[k].content>>],
     query |-> s.query]

\* synthesize_node that also assigns route
synthesize_node_sets_route(s, res) ==
    IF res.raised THEN NodeRaised
    ELSE NodeDone(<<Assign("answer", res.value), Assign("route", LabelQa)>>)

synthesize_node(s, res) ==
    IF res.raised THEN NodeRaised
    ELSE NodeDone(<<Assign("answer", res.value)>>)

action_prompt(s) == [system |-> "action", context |-> <<>>, query |-> s.query]

\* an Action node that assigns a fresh mapping to metadata
action_node_replaces_metadata(s, res) ==
    IF res.raised THEN NodeRaised
    ELSE NodeDone(<<Assign("answer", res.value),
                    Assign("metadata", "action_taken" :> "simulated")>>)

\* action_node that does not record action_taken
action_node_no_flag(s, res) ==
    IF res.raised THEN NodeRaised
    ELSE NodeDone(<<Assign("answer", res.value)>>)

action_node(s, res) ==
    IF res.raised THEN NodeRaised
    ELSE NodeDone(<<Assign("answer", res.value),
                    AssignKey("metadata", "action_taken", "simulated")>>)

----------------------------------------------------------------------------
(* The transition table, in its two implementations, and the streaming order *)

\* route_condition of build_graph
route_condition(s) ==
    IF s.route = LabelQa THEN "retrieve"
    ELSE IF s.route = LabelSummarize THEN "synthesize"
    ELSE IF s.route = LabelAction THEN "action"
    ELSE "END"

\* the edges of build_graph: the node that follows node, or END.  graph.ainvoke
\* is taken to run the nodes along these edges, from the entry point, on the
\* run's GraphState and to hand that state back
langgraph_next(node, s) ==
    IF node = "router" THEN route_condition(s)
    ELSE IF node = "retrieve" THEN "synthesize"
    ELSE "END"

\* the fallback pipeline running Action after Synthesize
fallback_next_both_terminals(node, s) ==
    IF node = "router"
    THEN IF s.route \in {LabelQa, LabelSummarize} THEN "retrieve" ELSE "action"
    ELSE IF node = "retrieve" THEN "synthesize"
    ELSE IF node = "synthesize" THEN "action"
    ELSE "END"

\* the fallback pipeline of run_graph
fallback_next(node, s) ==
    IF node = "router"
    THEN IF s.route \in {LabelQa, LabelSummarize} THEN "retrieve" ELSE "action"
    ELSE IF node = "retrieve" THEN "synthesize"
    ELSE "END"

\* a batch engine that takes END for one more node instead of returning
batch_next_never_returns(lg, node, s) ==
    IF lg THEN langgraph_next(node, s) ELSE fallback_next(node, s)

\* run_graph: where the run goes after node
batch_next(lg, node, s) ==
    LET n == IF lg THEN langgraph_next(node, s) ELSE fallback_next(node, s)
    IN  IF n = "END" THEN "return" ELSE n

\* run_graph_stream without the yield of the sources event
stream_next_no_sources(node, s) ==
    IF node = "router" THEN "yield_route"
    ELSE IF node = "retrieve" THEN "yield_thinking"
    ELSE "split"

\* run_graph_stream that goes on from the router without yielding route
stream_next_no_route(node, s) ==
    IF node = "router"
    THEN IF s.route \in {LabelQa, LabelSummarize} THEN "yield_retrieving" ELSE "yield_thinking"
    ELSE IF node = "retrieve" THEN "yield_sources"
    ELSE "split"

\* run_graph_stream: the statement that follows node
stream_next(node, s) ==
    IF node = "router" THEN "yield_route"
    ELSE IF node = "retrieve" THEN "yield_sources"
    ELSE "split"

ChunkSize == 5

----------------------------------------------------------------------------
(* Runs *)

NoResult == [answer |-> <<>>, sources |-> <<>>, metadata |-> <<>>]
NoLocals == [words |-> <<>>, i |-> 0]

Init ==
    /\ conversations = <<>>
    /\ use_langgraph \in BOOLEAN
    /\ provider \in Providers
    /\ llm_memo = <<>>
    /\ mode = [r \in Runs |-> "idle"]
    /\ pc = [r \in Runs |-> "idle"]
    /\ state = [r \in Runs |-> GraphState("org1", r, "", <<>>)]
    /\ loc = [r \in Runs |-> NoLocals]
    /\ events = [r \in Runs |-> <<>>]
    /\ result = [r \in Runs |-> NoResult]
    /\ trace = [r \in Runs |-> <<>>]

Entry(kind, name, by, value) == [kind |-> kind, name |-> name, by |-> by, value |-> value]

\* the history a node leaves: its start, its assignments, and its end or raise
node_trace(node, out) ==
    <<Entry("start", node, node, "")>>
    \o [k \in 1..Len(out.assigns) |->
          Entry("write",
                IF out.assigns[k].key = "" THEN out.assigns[k].field
                ELSE out.assigns[k].field \o "." \o out.assigns[k].key,
                node, out.assigns[k].value)]
    \o <<Entry(IF out.raised THEN "raise" ELSE "end", node, node, "")>>

\* run_graph(ctx, query) is called: the GraphState is built (graph.py:225-230)
\* and, with either implementation of the table, the router is entered
StartBatch(r, q) ==
    /\ mode[r] = "idle"
    /\ mode' = [mode EXCEPT ![r] = "batch"]
    /\ state' = [state EXCEPT ![r] = GraphState("org1", "conv1", q, <<>>)]
    /\ pc' = [pc EXCEPT ![r] = "router"]
    /\ UNCHANGED <<conversations, use_langgraph, provider, llm_memo, loc, events, result, trace>>

\* run_graph_stream(ctx, query) is called and pulled for the first time
\* (graph.py:255-260)
StartStream(r, q) ==
    /\ mode[r] = "idle"
    /\ mode' = [mode EXCEPT ![r] = "stream"]
    /\ state' = [state EXCEPT ![r] = GraphState("org1", "conv1", q, <<>>)]
    /\ pc' = [pc EXCEPT ![r] = "yield_routing"]
    /\ UNCHANGED <<conversations, use_langgraph, provider, llm_memo, loc, events, result, trace>>

\* the engine's step over a node that produced out
after_node(r, node, out) ==
    \E done \in {out} :
        /\ state' = [state EXCEPT ![r] = apply_all(@, done.assigns)]
        /\ trace' = [trace EXCEPT ![r] = @ \o node_trace(node, done)]
        /\ pc' = [pc EXCEPT ![r] =
                    IF done.raised THEN "failed"
                    ELSE IF mode[r] = "batch"
                         THEN batch_next(use_langgraph, node, apply_all(state[r], done.assigns))
                         ELSE stream_next(node, apply_all(state[r], done.assigns))]
        /\ UNCHANGED <<conversations, use_langgraph, provider, mode, loc, events, result>>

RouterNode(r) ==
    /\ pc[r] = "router"
    /\ \E o \in LlmOutcomes(router_prompt(state[r])) :
          \E res \in {completion(provider, o)} :
              /\ llm_memo' = (router_prompt(state[r]) :> o) @@ llm_memo
              /\ after_node(r, "router", router_node(state[r], res))

RetrieveNode(r) ==
    /\ pc[r] = "retrieve"
    /\ after_node(r, "retrieve", retrieve_node(state[r]))
    /\ UNCHANGED llm_memo

SynthesizeNode(r) ==
    /\ pc[r] = "synthesize"
    /\ \E o \in LlmOutcomes(synthesize_prompt(state[r])) :
          \E res \in {completion(provider, o)} :
              /\ llm_memo' = (synthesize_prompt(state[r]) :> o) @@ llm_memo
              /\ after_node(r, "synthesize", synthesize_node(state[r], res))

ActionNode(r) ==
    /\ pc[r] = "action"
    /\ \E o \in LlmOutcomes(action_prompt(state[r])) :
          \E res \in {completion(provider, o)} :
              /\ llm_memo' = (action_prompt(state[r]) :> o) @@ llm_memo
              /\ after_node(r, "action", action_node(state[r], res))

\* run_graph returns (graph.py:247-251)
Return(r) ==
    /\ pc[r] = "return"
    /\ result' = [result EXCEPT ![r] =
                    [answer |-> state[r].answer, sources |-> state[r].sources,
                     metadata |-> state[r].metadata]]
    /\ pc' = [pc EXCEPT ![r] = "done"]
    /\ UNCHANGED <<conversations, use_langgraph, provider, llm_memo, mode, state, loc, events, trace>>

\* one yield of run_graph_stream: the event is handed to the consumer
yield(r, ev, next) ==
    /\ events' = [events EXCEPT ![r] = Append(@, ev)]
    /\ trace' = [trace EXCEPT ![r] = Append(@, Entry("yield", ev.type, "engine", ""))]
    /\ pc' = [pc EXCEPT ![r] = next]
    /\ UNCHANGED <<conversations, use_langgraph, provider, llm_memo, mode, state, result>>

YieldRouting(r) ==
    /\ pc[r] = "yield_routing"
    /\ yield(r, [type |-> "routing", content |-> "Analyzing your query..."], "router")
    /\ UNCHANGED loc

\* a route event carrying the bare label
YieldRoute_bare(r) ==
    /\ pc[r] = "yield_route"
    /\ yield(r, [type |-> "route", content |-> state[r].route],
             IF state[r].route \in {LabelQa, LabelSummarize}
             THEN "yield_retrieving" ELSE "yield_thinking")
    /\ UNCHANGED loc

YieldRoute(r) ==
    /\ pc[r] = "yield_route"
    /\ yield(r, [type |-> "route", content |-> RoutePrefix \o state[r].route],
             IF state[r].route \in {LabelQa, LabelSummarize}
             THEN "yield_retrieving" ELSE "yield_thinking")
    /\ UNCHANGED loc

YieldRetrieving(r) ==
    /\ pc[r] = "yield_retrieving"
    /\ yield(r, [type |-> "retrieving", content |-> "Searching knowledge base..."],
             "retrieve")
    /\ UNCHANGED loc

YieldSources(r) ==
    /\ pc[r] = "yield_sources"
    /\ yield(r, [type |-> "sources", content |-> state[r].sources], "yield_thinking")
    /\ UNCHANGED loc

YieldThinking(r) ==
    /\ pc[r] = "yield_thinking"
    /\ yield(r, [type |-> "thinking", content |-> "Generating answer..."],
             IF state[r].route \in {LabelQa, LabelSummarize}
             THEN "synthesize" ELSE "action")
    /\ UNCHANGED loc

\* words = state.answer.split() and the loop is entered (graph.py:281-282)
SplitAnswer(r) ==
    /\ pc[r] = "split"
    /\ loc' = [loc EXCEPT ![r] = [words |-> split(state[r].answer), i |-> 0]]
    /\ pc' = [pc EXCEPT ![r] = "chunk_loop"]
    /\ UNCHANGED <<conversations, use_langgraph, provider, llm_memo, mode, state, events, result, trace>>

\* the chunk taken one word short: words[i:i+4]
chunk_short(words, i) == join(<<" ">>, slice(words, i, i + ChunkSize - 1))

\* the chunk words[i:i+5] joined by spaces
chunk(words, i) == join(<<" ">>, slice(words, i, i + ChunkSize))

YieldAnswer(r) ==
    /\ pc[r] = "chunk_loop"
    /\ loc[r].i < Len(loc[r].words)
    /\ yield(r, [type |-> "answer", content |-> chunk(loc[r].words, loc[r].i)],
             "chunk_loop")
    /\ loc' = [loc EXCEPT ![r].i = @ + ChunkSize]

YieldComplete(r) ==
    /\ pc[r] = "chunk_loop"
    /\ loc[r].i >= Len(loc[r].words)
    /\ yield(r, [type |-> "complete", content |-> state[r].answer,
                 metadata |-> state[r].metadata], "done")
    /\ UNCHANGED loc

Next ==
    \E r \in Runs :
        \/ \E q \in Queries : StartBatch(r, q)
        \/ \E q \in Queries : StartStream(r, q)
        \/ RouterNode(r)
        \/ RetrieveNode(r)
        \/ SynthesizeNode(r)
        \/ ActionNode(r)
        \/ Return(r)
        \/ YieldRouting(r)
        \/ YieldRoute(r)
        \/ YieldRetrieving(r)
        \/ YieldSources(r)
        \/ YieldThinking(r)
        \/ SplitAnswer(r)
        \/ YieldAnswer(r)
        \/ YieldComplete(r)

Spec == Init /\ [][Next]_vars

----------------------------------------------------------------------------
(* Observations of a run, read off its history and its events *)

\* the nodes the run has started, in order
NodeSeq(r) ==
    LET IsStart(e) == e.kind = "start"
        starts == SelectSeq(trace[r], IsStart)
    IN  [k \in 1..Len(starts) |-> starts[k].name]

\* the positions of the history at which the field was assigned
WritesOf(r, field) ==
    {k \in 1..Len(trace[r]) : trace[r][k].kind = "write" /\ trace[r][k].name = field}

\* the positions of the history at which the node started
StartsOf(r, node) ==
    {k \in 1..Len(trace[r]) : trace[r][k].kind = "start" /\ trace[r][k].name = node}

\* the types of the events yielded so far, in order
EventTypes(r) == [k \in 1..Len(events[r]) |-> events[r][k].type]

\* the events of one type, in order
EventsOf(r, type) ==
    LET IsType(e) == e.type = type IN SelectSeq(events[r], IsType)

\* the run has got past the router
Routed(r) ==
    \E k \in 1..Len(trace[r]) : trace[r][k].kind = "end" /\ trace[r][k].name = "router"

\* some node of the run has raised
Raises(r) == \E k \in 1..Len(trace[r]) : trace[r][k].kind = "raise"

\* the run is over: run_graph has returned, or complete has been yielded
Finished(r) == pc[r] = "done"

\* the outcome the backend gave for the run's router call / terminal call
RouterOutcome(r) == llm_memo[router_prompt(state[r])]
TerminalPrompt(r) ==
    IF "action" \in {NodeSeq(r)[k] : k \in 1..Len(NodeSeq(r))}
    THEN action_prompt(state[r]) ELSE synthesize_prompt(state[r])

\* The transition table of the specification, section 4.5
TableSequence(route) ==
    IF route = LabelAction THEN <<"router", "action">>
    ELSE <<"router", "retrieve", "synthesize">>

IsPrefix(a, b) == Len(a) <= Len(b) /\ a = SubSeq(b, 1, Len(a))

----------------------------------------------------------------------------
(* C1 *)

\* C1 (as claimed): every finished batch run has executed exactly the node
\* sequence the transition table gives for its route, with either
\* implementation of the table: router, retrieve, synthesize for qa and for
\* summarize, and router, action for action.
C1_BatchFollowsTable ==
    \A r \in Runs :
        (mode[r] = "batch" /\ Finished(r)) =>
            /\ state[r].route \in Labels
            /\ NodeSeq(r) = TableSequence(state[r].route)

----------------------------------------------------------------------------
(* C2 *)

\* the route each text of the model must give, written out case by case
ExpectedRoute(o) ==
    IF o.ok /\ o.text = TextQa THEN LabelQa
    ELSE IF o.ok /\ o.text = TextSummarize THEN LabelSummarize
    ELSE IF o.ok /\ o.text = TextAction THEN LabelAction
    ELSE LabelQa

\* C2: whatever text the Completion backend gave the router (a label, a label
\* with whitespace or in another case, the empty string, garbage, an error
\* string), the router ends with route one of qa, summarize, action: the
\* trimmed lower-cased text when that is a label and qa otherwise.  No run
\* fails in the router and at every dispatch point route is a label.
C2_RouteAlwaysLabel ==
    \A r \in Runs :
        /\ ~ Raises(r) /\ pc[r] # "failed"
        /\ Routed(r) =>
              /\ state[r].route \in Labels
              /\ state[r].route = ExpectedRoute(RouterOutcome(r))
        /\ pc[r] \in {"retrieve", "synthesize", "action", "return", "yield_route",
                      "yield_retrieving", "yield_sources", "yield_thinking",
                      "split", "chunk_loop", "done"} => state[r].route \in Labels

\* a run that the router's default sent to qa: the backend's text was garbage,
\* empty or an error string, and the run has been dispatched to Retrieve
C2_Witness ==
    \E r \in Runs :
        /\ Routed(r)
        /\ ~ RouterOutcome(r).ok
        /\ state[r].route = LabelQa
        /\ "retrieve" \in {NodeSeq(r)[k] : k \in 1..Len(NodeSeq(r))}

----------------------------------------------------------------------------
(* C3 *)

\* the event types of a stream run with the given route and n answer events
StreamOrder(route, n) ==
    <<"routing", "route">>
    \o (IF route \in {LabelQa, LabelSummarize} THEN <<"retrieving", "sources">> ELSE <<>>)
    \o <<"thinking">>
    \o [k \in 1..n |-> "answer"]
    \o <<"complete">>

\* C3: the events of a stream run come in the order routing, route, then
\* retrieving and sources when the route is qa or summarize (and never when it
\* is action), thinking, the answer events, complete; a finished run has
\* yielded the whole sequence, with complete last and once.
C3_StreamOrder ==
    \A r \in Runs :
        mode[r] = "stream" =>
            LET n == Len(EventsOf(r, "answer"))
                order == StreamOrder(state[r].route, n)
            IN  /\ IsPrefix(EventTypes(r), order)
                /\ Finished(r) => EventTypes(r) = order
                /\ state[r].route = LabelAction =>
                      EventsOf(r, "retrieving") = <<>> /\ EventsOf(r, "sources") = <<>>

\* a finished stream run on the summarize route with three answer events
C3_Witness ==
    \E r \in Runs :
        /\ mode[r] = "stream" /\ Finished(r)
        /\ state[r].route = LabelSummarize
        /\ Len(EventsOf(r, "answer")) = 3
        /\ Len(EventsOf(r, "sources")) = 1

----------------------------------------------------------------------------
(* C4 *)

\* the contents of the run's answer events, in order
AnswerChunks(r) ==
    LET a == EventsOf(r, "answer") IN [k \in 1..Len(a) |-> a[k].content]

\* the run's complete event
CompleteEvent(r) == EventsOf(r, "complete")[1]

\* C4 (as claimed): in a finished stream run with a non-empty answer, the
\* contents of the answer events joined by single spaces are exactly the
\* answer carried by the complete event.
C4_ChunksRejoinToAnswer ==
    \A r \in Runs :
        (mode[r] = "stream" /\ Finished(r) /\ state[r].answer # <<>>) =>
            join(<<" ">>, AnswerChunks(r)) = CompleteEvent(r).content

----------------------------------------------------------------------------
(* C5 *)

\* the sources a stream run reported: the content of its sources event, or
\* nothing when it yielded none
ReportedSources(r) ==
    IF EventsOf(r, "sources") = <<>> THEN <<>> ELSE EventsOf(r, "sources")[1].content

\* C5 (as claimed): a finished batch run and a finished stream run of the same
\* query, against the same deterministic Completion backend, have executed the
\* same nodes and carry the same answer, metadata and sources.
C5_BatchEqualsStream ==
    \A b \in Runs : \A s \in Runs :
        (/\ mode[b] = "batch" /\ Finished(b)
         /\ mode[s] = "stream" /\ Finished(s)
         /\ state[b].query = state[s].query) =>
            /\ NodeSeq(b) = NodeSeq(s)
            /\ CompleteEvent(s).content = result[b].answer
            /\ CompleteEvent(s).metadata = result[b].metadata
            /\ ReportedSources(s) = result[b].sources

----------------------------------------------------------------------------
(* C6 *)

\* C6: route is assigned at most once in a run, and exactly once in a
\* finished run; the assignment is the router's; every other node starts
\* after it; and route keeps the value the router gave it.
C6_RouteWrittenOnceByRouter ==
    \A r \in Runs :
        LET w == WritesOf(r, "route")
        IN  /\ Cardinality(w) <= 1
            /\ \A k \in w : trace[r][k].by = "router" /\ state[r].route = trace[r][k].value
            /\ w = {} => state[r].route = <<>>
            /\ \A k \in 1..Len(trace[r]) :
                  (trace[r][k].kind = "start" /\ trace[r][k].name # "router") =>
                      \E j \in w : j < k
            /\ Finished(r) => Cardinality(w) = 1

\* a finished run in which Retrieve and Synthesize ran after the one
\* assignment of route
C6_Witness ==
    \E r \in Runs :
        /\ Finished(r)
        /\ Cardinality(WritesOf(r, "route")) = 1
        /\ NodeSeq(r) = <<"router", "retrieve", "synthesize">>

----------------------------------------------------------------------------
(* C7 *)

\* C7: answer is empty until a terminal node has run; it is assigned at most
\* once, by Synthesize or by Action; a run starts at most one terminal node,
\* and a finished run has started exactly one and assigned answer once.
C7_AnswerWrittenOnce ==
    \A r \in Runs :
        LET w == WritesOf(r, "answer")
            terminals == StartsOf(r, "synthesize") \cup StartsOf(r, "action")
        IN  /\ Cardinality(w) <= 1
            /\ \A k \in w : trace[r][k].by \in {"synthesize", "action"}
            /\ w = {} => state[r].answer = <<>>
            /\ terminals = {} => w = {}
            /\ Cardinality(terminals) <= 1
            /\ Finished(r) => Cardinality(terminals) = 1 /\ Cardinality(w) = 1

\* a finished run whose answer, several words long, was assigned by Action
C7_Witness ==
    \E r \in Runs :
        /\ Finished(r)
        /\ NodeSeq(r) = <<"router", "action">>
        /\ \E k \in WritesOf(r, "answer") : trace[r][k].by = "action"
        /\ state[r].answer = TextLong

----------------------------------------------------------------------------
(* C8 *)

\* sources is the projection of docs, index by index
IsProjection(sources, docs) ==
    /\ Len(sources) = Len(docs)
    /\ \A k \in 1..Len(docs) :
          /\ sources[k].id = docs[k].id
          /\ sources[k].source = docs[k].source
          /\ sources[k].score = docs[k].score

\* C8 (as claimed): retrieved_docs and sources are both empty or both set by
\* one Retrieve execution, sources being the index-aligned projection of
\* retrieved_docs; and a run with route qa or summarize ends with the two
\* retrieved documents doc1, doc2.
C8_SourcesProjectDocs ==
    \A r \in Runs :
        /\ \/ state[r].retrieved_docs = <<>> /\ state[r].sources = <<>>
           \/ /\ Cardinality(StartsOf(r, "retrieve")) = 1
              /\ state[r].retrieved_docs # <<>>
              /\ state[r].sources # <<>>
        /\ IsProjection(state[r].sources, state[r].retrieved_docs)
        /\ (Finished(r) /\ state[r].route \in {LabelQa, LabelSummarize}) =>
              /\ Len(state[r].sources) = 2
              /\ state[r].sources[1].id = "doc1"
              /\ state[r].sources[2].id = "doc2"

----------------------------------------------------------------------------
(* C9 *)

\* the metadata a finished run hands to its caller
FinalMetadata(r) ==
    IF mode[r] = "batch" THEN result[r].metadata ELSE CompleteEvent(r).metadata

\* C9: in a run routed to action only Router and Action execute,
\* retrieved_docs and sources stay empty, and the run ends with
\* action_taken = "simulated" in its metadata; in a run routed to qa or
\* summarize Action never runs and action_taken is never set.
C9_ActionRunsAlone ==
    \A r \in Runs :
        Routed(r) =>
            /\ state[r].route = LabelAction =>
                  /\ IsPrefix(NodeSeq(r), <<"router", "action">>)
                  /\ state[r].retrieved_docs = <<>>
                  /\ state[r].sources = <<>>
                  /\ Finished(r) =>
                        /\ NodeSeq(r) = <<"router", "action">>
                        /\ "action_taken" \in DOMAIN FinalMetadata(r)
                        /\ FinalMetadata(r)["action_taken"] = "simulated"
                        /\ mode[r] = "batch" => result[r].sources = <<>>
                        /\ mode[r] = "stream" => ReportedSources(r) = <<>>
            /\ state[r].route \in {LabelQa, LabelSummarize} =>
                  /\ StartsOf(r, "action") = {}
                  /\ "action_taken" \notin DOMAIN state[r].metadata

\* a finished batch run on the action route, with the LangGraph graph
C9_Witness ==
    \E r \in Runs :
        /\ use_langgraph /\ mode[r] = "batch" /\ Finished(r)
        /\ state[r].route = LabelAction
        /\ result[r].metadata["action_taken"] = "simulated"

----------------------------------------------------------------------------
(* C10 *)

\* a terminal node of the run has been left
TerminalRan(r) ==
    \E k \in 1..Len(trace[r]) :
        /\ trace[r][k].kind \in {"end", "raise"}
        /\ trace[r][k].name \in {"synthesize", "action"}

TerminalOutcome(r) == llm_memo[TerminalPrompt(r)]

\* the error string of the configured provider for an exception with str(e) = msg
ErrorString(msg) ==
    (IF provider = "anthropic" THEN ErrAnthropic ELSE ErrOpenAI) \o msg

\* the run is at a statement of run_graph or run_graph_stream from which it
\* takes its next step
CanStep(r) ==
    \/ pc[r] = "router" /\ LlmOutcomes(router_prompt(state[r])) # {}
    \/ pc[r] = "retrieve"
    \/ pc[r] = "synthesize" /\ LlmOutcomes(synthesize_prompt(state[r])) # {}
    \/ pc[r] = "action" /\ LlmOutcomes(action_prompt(state[r])) # {}
    \/ pc[r] = "return" /\ mode[r] = "batch"
    \/ /\ mode[r] = "stream"
       /\ pc[r] \in {"yield_routing", "yield_route", "yield_retrieving",
                     "yield_sources", "yield_thinking", "split", "chunk_loop"}

\* C10: no failure of a Completion call aborts a run.  A failed router call
\* leaves route = qa and the run goes on through Retrieve and Synthesize; a
\* failed terminal call leaves the provider's error string as the answer; a
\* started run that is not over always has a next step, and a finished run
\* has returned {answer, sources, metadata} or yielded complete last.
C10_FailureNeverAborts ==
    \A r \in Runs :
        /\ pc[r] # "failed" /\ ~ Raises(r)
        /\ (Routed(r) /\ ~ RouterOutcome(r).ok) =>
              /\ state[r].route = LabelQa
              /\ IsPrefix(NodeSeq(r), <<"router", "retrieve", "synthesize">>)
              /\ Finished(r) => NodeSeq(r) = <<"router", "retrieve", "synthesize">>
        /\ (TerminalRan(r) /\ ~ TerminalOutcome(r).ok) =>
              state[r].answer = ErrorString(TerminalOutcome(r).text)
        /\ pc[r] \notin {"idle", "done"} => CanStep(r)
        /\ (Finished(r) /\ mode[r] = "batch") =>
              result[r] = [answer |-> state[r].answer, sources |-> state[r].sources,
                           metadata |-> state[r].metadata]
        /\ (Finished(r) /\ mode[r] = "stream") =>
              /\ events[r][Len(events[r])].type = "complete"
              /\ events[r][Len(events[r])].content = state[r].answer

\* a finished run in which both Completion calls failed: it went through
\* Retrieve and Synthesize and its answer is the error string
C10_Witness ==
    \E r \in Runs :
        /\ Finished(r)
        /\ ~ RouterOutcome(r).ok
        /\ ~ TerminalOutcome(r).ok
        /\ NodeSeq(r) = <<"router", "retrieve", "synthesize">>
        /\ state[r].answer = ErrorString(<<"q", "a">>)

----------------------------------------------------------------------------
(* C11 *)

\* the number of words of each answer event of the run, in order
ChunkWordCounts(r) == [k \in 1..Len(AnswerChunks(r)) |-> Len(split(AnswerChunks(r)[k]))]

\* C11: for an answer of n whitespace-separated words a finished stream run
\* has yielded ceil(n/5) answer events (none when n = 0); every one but the
\* last carries 5 words and the last between 1 and 5; the k-th carries the
\* words 5(k-1)+1 .. min(5k, n) of the answer, in order, joined by single
\* spaces, so no word is dropped, duplicated or reordered.
C11_ChunkShape ==
    \A r \in Runs :
        (mode[r] = "stream" /\ pc[r] \in {"chunk_loop", "done"}) =>
            LET words == split(state[r].answer)
                n == Len(words)
                chunks == AnswerChunks(r)
                m == Len(chunks)
                last == (n + 4) \div 5
            IN  /\ m <= last
                /\ Finished(r) => m = last
                /\ \A k \in 1..m :
                      /\ split(chunks[k]) = SubSeq(words, 5 * (k - 1) + 1, Min(5 * k, n))
                      /\ chunks[k] = join(<<" ">>, split(chunks[k]))
                      /\ k < last => Len(split(chunks[k])) = 5
                      /\ k = last => Len(split(chunks[k])) \in 1..5

\* a finished stream run over an answer of 12 words: three answer events of
\* 5, 5 and 2 words, then complete
C11_Witness ==
    \E r \in Runs :
        /\ mode[r] = "stream" /\ Finished(r)
        /\ Len(split(state[r].answer)) = 12
        /\ ChunkWordCounts(r) = <<5, 5, 2>>
        /\ SubSeq(EventTypes(r), Len(EventTypes(r)) - 3, Len(EventTypes(r)))
              = <<"answer", "answer", "answer", "complete">>

----------------------------------------------------------------------------
(* C12 *)

\* the two runs were given the same ctx and the same query
SameInput(a, b) ==
    /\ state[a].org_id = state[b].org_id
    /\ state[a].conversation_id = state[b].conversation_id
    /\ state[a].tools = state[b].tools
    /\ state[a].query = state[b].query

\* C12: two finished batch runs with the same {org_id, conversation_id, tools}
\* and query, against the deterministic Completion backend and the built-in
\* retriever, have returned the same answer, sources and metadata, in
\* whatever order and interleaving they ran.
C12_BatchDeterministic ==
    \A a \in Runs : \A b \in Runs :
        (/\ a # b
         /\ mode[a] = "batch" /\ Finished(a)
         /\ mode[b] = "batch" /\ Finished(b)
         /\ SameInput(a, b)) =>
            /\ result[a].answer = result[b].answer
            /\ result[a].sources = result[b].sources
            /\ result[a].metadata = result[b].metadata

\* two finished batch runs of the same input that retrieved two documents
\* and returned a twelve-word answer
C12_Witness ==
    \E a \in Runs : \E b \in Runs :
        /\ a # b
        /\ mode[a] = "batch" /\ Finished(a)
        /\ mode[b] = "batch" /\ Finished(b)
        /\ SameInput(a, b)
        /\ Len(result[a].sources) = 2
        /\ result[b].answer = TextLong

----------------------------------------------------------------------------
(* C14 *)

\* the positions of the run's history with an entry of this kind and name
At(r, kind, name) ==
    {k \in 1..Len(trace[r]) : trace[r][k].kind = kind /\ trace[r][k].name = name}

\* the positions at which a terminal node started / ended
TerminalStarts(r) == At(r, "start", "synthesize") \cup At(r, "start", "action")
TerminalEnds(r) == At(r, "end", "synthesize") \cup At(r, "end", "action")

\* every position of B comes after some position of A
Preceded(A, B) == \A b \in B : \E a \in A : a < b

\* every position of A comes before every position of B
AllBefore(A, B) == \A a \in A : \A b \in B : a < b

\* C14: in a stream run, routing is yielded before the Router starts; route
\* after the Router has ended and before Retrieve or the terminal node
\* starts; retrieving before Retrieve starts and sources after it has ended
\* and before the terminal node starts; thinking before the terminal node
\* starts; answer and complete only after the terminal node has ended.
C14_EventsBracketNodes ==
    \A r \in Runs :
        mode[r] = "stream" =>
            /\ Preceded(At(r, "yield", "routing"), At(r, "start", "router"))
            /\ AllBefore(At(r, "yield", "routing"), At(r, "start", "router"))
            /\ Preceded(At(r, "end", "router"), At(r, "yield", "route"))
            /\ Preceded(At(r, "yield", "route"),
                        At(r, "start", "retrieve") \cup TerminalStarts(r))
            /\ AllBefore(At(r, "yield", "route"),
                         At(r, "start", "retrieve") \cup TerminalStarts(r))
            /\ Preceded(At(r, "yield", "retrieving"), At(r, "start", "retrieve"))
            /\ AllBefore(At(r, "yield", "retrieving"), At(r, "start", "retrieve"))
            /\ Preceded(At(r, "end", "retrieve"), At(r, "yield", "sources"))
            /\ At(r, "start", "retrieve") # {} =>
                  Preceded(At(r, "yield", "sources"), TerminalStarts(r))
            /\ AllBefore(At(r, "yield", "sources"), TerminalStarts(r))
            /\ Preceded(At(r, "yield", "thinking"), TerminalStarts(r))
            /\ AllBefore(At(r, "yield", "thinking"), TerminalStarts(r))
            /\ Preceded(TerminalEnds(r),
                        At(r, "yield", "answer") \cup At(r, "yield", "complete"))

\* a finished stream run that yielded every kind of event around its three nodes
C14_Witness ==
    \E r \in Runs :
        /\ mode[r] = "stream" /\ Finished(r)
        /\ NodeSeq(r) = <<"router", "retrieve", "synthesize">>
        /\ At(r, "yield", "sources") # {}
        /\ At(r, "yield", "answer") # {}
        /\ At(r, "yield", "complete") # {}

----------------------------------------------------------------------------
(* C15 *)

\* Concurrent runs over different inputs: the first run is given q1, the
\* second q1 or q2, and their steps interleave freely
ConcQueries(r) == IF r = "r1" THEN {"q1"} ELSE {"q1", "q2"}

NextConc ==
    \E r \in Runs :
        \/ \E q \in ConcQueries(r) : StartBatch(r, q)
        \/ \E q \in ConcQueries(r) : StartStream(r, q)
        \/ RouterNode(r)
        \/ RetrieveNode(r)
        \/ SynthesizeNode(r)
        \/ ActionNode(r)
        \/ Return(r)
        \/ YieldRouting(r)
        \/ YieldRoute(r)
        \/ YieldRetrieving(r)
        \/ YieldSources(r)
        \/ YieldThinking(r)
        \/ SplitAnswer(r)
        \/ YieldAnswer(r)
        \/ YieldComplete(r)

\* the default provider (LLM_PROVIDER unset), with either table implementation
InitConc == Init /\ provider = "openai"

SpecConc == InitConc /\ [][NextConc]_vars

\* What a run of this mode and query does when it executes alone, as a
\* function of its input, the configuration and the backend's outcomes
AloneRoute(q) ==
    ExpectedRoute(llm_memo[[system |-> "router", context |-> <<>>, query |-> q]])

AloneRetrieves(m, q) ==
    /\ AloneRoute(q) # LabelAction
    /\ ~ (m = "batch" /\ use_langgraph /\ AloneRoute(q) = LabelSummarize)

AloneSources(m, q) ==
    IF AloneRetrieves(m, q)
    THEN <<[id |-> "doc1", source |-> "docs", score |-> 95],
           [id |-> "doc2", source |-> "docs", score |-> 87]>>
    ELSE <<>>

AlonePrompt(m, q) ==
    IF AloneRoute(q) = LabelAction
    THEN [system |-> "action", context |-> <<>>, query |-> q]
    ELSE [system |-> "synthesize",
          context |-> IF AloneRetrieves(m, q)
                      THEN << <<1, mock_docs[1].content>>, <<2, mock_docs[2].content>> >>
                      ELSE <<>>,
          query |-> q]

AloneAnswer(m, q) ==
    LET o == llm_memo[AlonePrompt(m, q)]
    IN  IF o.ok THEN o.text ELSE ErrorString(o.text)

AloneMetadata(q) ==
    IF AloneRoute(q) = LabelAction
    THEN [route |-> LabelAction, action_taken |-> "simulated"]
    ELSE [route |-> AloneRoute(q)]

\* C15: under every interleaving of the steps of two runs (batch or
\* streaming, same or different queries) each finished run ends with the
\* route, answer, sources and metadata it has when it executes alone.
C15_RunsIsolated ==
    \A r \in Runs :
        Finished(r) =>
            LET m == mode[r]
                q == state[r].query
            IN  /\ state[r].route = AloneRoute(q)
                /\ AlonePrompt(m, q) \in DOMAIN llm_memo
                /\ state[r].answer = AloneAnswer(m, q)
                /\ state[r].sources = AloneSources(m, q)
                /\ state[r].metadata = AloneMetadata(q)
                /\ m = "batch" =>
                      result[r] = [answer |-> AloneAnswer(m, q),
                                   sources |-> AloneSources(m, q),
                                   metadata |-> AloneMetadata(q)]
                /\ m = "stream" =>
                      /\ CompleteEvent(r).content = AloneAnswer(m, q)
                      /\ CompleteEvent(r).metadata = AloneMetadata(q)
                      /\ ReportedSources(r) = AloneSources(m, q)

\* two finished runs of different queries and modes that took different routes
C15_Witness ==
    /\ Finished("r1") /\ Finished("r2")
    /\ state["r1"].query # state["r2"].query
    /\ state["r1"].route = LabelAction
    /\ state["r2"].route = LabelSummarize
    /\ mode["r1"] = "stream" /\ mode["r2"] = "batch"

----------------------------------------------------------------------------
(* C16 *)

\* What a provider method does when the task is cancelled during its await
\* of the API call: asyncio.CancelledError is a BaseException, which
\* "except Exception" (graph.py:71, 87) does not catch, so it leaves the call
completion_on_cancel_caught(prov) ==
    Returned(IF prov = "anthropic" THEN ErrAnthropic ELSE ErrOpenAI)

completion_on_cancel(prov) == Raised("CancelledError")

\* the node whose Completion call is in flight at this statement
node_at(r, res) ==
    IF pc[r] = "router" THEN router_node(state[r], res)
    ELSE IF pc[r] = "synthesize" THEN synthesize_node(state[r], res)
    ELSE action_node(state[r], res)

\* The consumer (chat_stream's event_generator, main.py:135-137) is cancelled
\* or dropped while the generator is suspended at a yield, or before its
\* first pull: the generator is closed at that yield and runs no further
CancelAtYield(r) ==
    /\ mode[r] = "stream"
    /\ \/ pc[r] \in {"yield_routing", "router", "yield_retrieving", "retrieve",
                     "yield_thinking", "synthesize", "action"}
       \/ pc[r] = "chunk_loop" /\ loc[r].i > 0
    /\ pc' = [pc EXCEPT ![r] = "cancelled"]
    /\ trace' = [trace EXCEPT ![r] = Append(@, Entry("cancel", "consumer", "consumer", ""))]
    /\ UNCHANGED <<conversations, use_langgraph, provider, llm_memo, mode, state, loc, events, result>>

\* The consumer is cancelled while a node of the run awaits its Completion
\* call: the cancellation is delivered into that await
CancelInFlight(r) ==
    /\ mode[r] = "stream"
    /\ pc[r] \in {"router", "synthesize", "action"}
    /\ LET out == node_at(r, completion_on_cancel(provider))
           history == node_trace(pc[r], out)
       IN  /\ state' = [state EXCEPT ![r] = apply_all(@, out.assigns)]
           /\ trace' = [trace EXCEPT ![r] =
                          @ \o <<Head(history), Entry("cancel", "consumer", "consumer", "")>>
                            \o Tail(history)]
           /\ pc' = [pc EXCEPT ![r] =
                       IF out.raised THEN "cancelled"
                       ELSE stream_next(pc[r], apply_all(state[r], out.assigns))]
    /\ UNCHANGED <<conversations, use_langgraph, provider, llm_memo, mode, loc, events, result>>

NextCancel ==
    \/ Next
    \/ \E r \in Runs : CancelAtYield(r)
    \/ \E r \in Runs : CancelInFlight(r)

SpecCancel == Init /\ [][NextCancel]_vars

\* the positions of the run's history at which it was cancelled
Cancels(r) == At(r, "cancel", "consumer")

\* C16: once a stream run has been cancelled, between two events or while a
\* Completion call is in flight, it is abandoned: nothing is yielded and no
\* node starts after the cancellation, the run has no next step, and it has
\* yielded no complete event.
C16_NothingAfterCancel ==
    \A r \in Runs :
        Cancels(r) # {} =>
            /\ \A k \in Cancels(r) : \A j \in (k + 1)..Len(trace[r]) :
                  trace[r][j].kind \notin {"yield", "start", "write", "end"}
            /\ pc[r] = "cancelled"
            /\ ~ CanStep(r)
            /\ EventsOf(r, "complete") = <<>>

\* a stream run cancelled while its terminal Completion call was in flight,
\* after it had yielded routing, route, retrieving, sources and thinking
C16_Witness ==
    \E r \in Runs :
        /\ pc[r] = "cancelled"
        /\ EventTypes(r) = <<"routing", "route", "retrieving", "sources", "thinking">>
        /\ trace[r][Len(trace[r])].kind = "raise"
        /\ trace[r][Len(trace[r]) - 1].kind = "cancel"

----------------------------------------------------------------------------
(* C17 *)

\* the keys of metadata the run's nodes have written so far
KeysWritten(r) ==
    {key \in {"route", "action_taken"} : WritesOf(r, "metadata." \o key) # {}}

\* C17: metadata only grows.  No node assigns the mapping as a whole; every
\* key a node has written is still present; from the Router's end on
\* metadata["route"] is state.route; after Action the mapping holds both
\* route and action_taken; and the metadata a finished run hands out carries
\* the route that drove the dispatch.
C17_MetadataAdditive ==
    \A r \in Runs :
        /\ WritesOf(r, "metadata") = {}
        /\ mode[r] # "idle" => KeysWritten(r) = DOMAIN state[r].metadata
        /\ Routed(r) =>
              /\ "route" \in DOMAIN state[r].metadata
              /\ state[r].metadata["route"] = state[r].route
        /\ WritesOf(r, "metadata.action_taken") # {} =>
              /\ state[r].metadata["action_taken"] = "simulated"
              /\ state[r].metadata["route"] = LabelAction
        /\ Finished(r) =>
              /\ "route" \in DOMAIN FinalMetadata(r)
              /\ FinalMetadata(r)["route"] = state[r].route
              /\ FinalMetadata(r) = state[r].metadata

\* a finished run in which Action added action_taken next to route
C17_Witness ==
    \E r \in Runs :
        /\ Finished(r)
        /\ NodeSeq(r) = <<"router", "action">>
        /\ DOMAIN FinalMetadata(r) = {"route", "action_taken"}
        /\ FinalMetadata(r)["route"] = LabelAction

----------------------------------------------------------------------------
(* C18 *)

\* the route event of a stream run that has yielded one
RouteEvent(r) == EventsOf(r, "route")[1]

\* C18 (as claimed): the content of the route event is the route label the
\* Router assigned, and equals metadata["route"] of the run's complete event.
C18_RouteEventIsLabel ==
    \A r \in Runs :
        EventsOf(r, "route") # <<>> =>
            /\ RouteEvent(r).content = state[r].route
            /\ Finished(r) => RouteEvent(r).content = CompleteEvent(r).metadata["route"]

\* C18 (amended): a stream run yields at most one route event; its content
\* is the text "Route: " followed by the route label the Router assigned (one
\* of qa, summarize, action), and that label is metadata["route"] of the
\* run's later complete event.
C18_RouteEventShowsLabel ==
    \A r \in Runs :
        /\ Len(EventsOf(r, "route")) <= 1
        /\ EventsOf(r, "route") # <<>> =>
              /\ state[r].route \in Labels
              /\ RouteEvent(r).content = <<"R","o","u","t","e",":"," ">> \o state[r].route
              /\ slice(RouteEvent(r).content, 7, Len(RouteEvent(r).content)) = state[r].route
              /\ Finished(r) =>
                    RouteEvent(r).content
                        = <<"R","o","u","t","e",":"," ">> \o CompleteEvent(r).metadata["route"]

\* a finished stream run whose route event reads "Route: summarize" and whose
\* complete event carries the route summarize
C18_Witness ==
    \E r \in Runs :
        /\ Finished(r) /\ mode[r] = "stream"
        /\ RouteEvent(r).content = RoutePrefix \o LabelSummarize
        /\ CompleteEvent(r).metadata["route"] = LabelSummarize

----------------------------------------------------------------------------
(* C19 *)

\* one step of a started run: a node whose Completion call returns, the
\* return of run_graph, or a yield the consumer pulls
RunStep(r) ==
    \/ RouterNode(r)
    \/ RetrieveNode(r)
    \/ SynthesizeNode(r)
    \/ ActionNode(r)
    \/ Return(r)
    \/ YieldRouting(r)
    \/ YieldRoute(r)
    \/ YieldRetrieving(r)
    \/ YieldSources(r)
    \/ YieldThinking(r)
    \/ SplitAnswer(r)
    \/ YieldAnswer(r)
    \/ YieldComplete(r)

\* every Completion call of a started run eventually returns and the
\* consumer of a stream keeps pulling: a run that can step eventually does
SpecFair == Init /\ [][Next]_vars /\ \A r \in Runs : WF_vars(RunStep(r))

\* the most events a stream run yields: routing, route, retrieving, sources,
\* thinking, complete and one answer event per chunk of the longest answer
MaxEvents == 6 + (MaxWords + ChunkSize - 1) \div ChunkSize

\* no node has started twice in the run, and its events are bounded
RunsOnce(r) ==
    /\ \A node \in {"router", "retrieve", "synthesize", "action"} :
          Cardinality(StartsOf(r, node)) <= 1
    /\ Len(events[r]) <= MaxEvents

\* C19: with every Completion call returning and the consumer consuming,
\* every started run ends: a batch run returns its result, a stream run
\* yields complete last after a bounded number of events; and in no run
\* does a node execute more than once.
C19_RunsTerminate ==
    /\ [](\A r \in Runs : RunsOnce(r))
    /\ \A r \in Runs :
          (mode[r] # "idle") ~>
              /\ pc[r] = "done"
              /\ mode[r] = "batch" => result[r].metadata # <<>>
              /\ mode[r] = "stream" => events[r][Len(events[r])].type = "complete"

\* a batch run that has returned after Router, Retrieve and Synthesize, and
\* a stream run that has ended after yielding three answer chunks
C19_Witness ==
    \E r, t \in Runs :
        /\ mode[r] = "batch" /\ pc[r] = "done"
        /\ NodeSeq(r) = <<"router", "retrieve", "synthesize">>
        /\ mode[t] = "stream" /\ pc[t] = "done"
        /\ Len(EventsOf(t, "answer")) = 3

----------------------------------------------------------------------------
(* C20 *)

\* the conversation ids requests carry; an id not yet stored also stands for
\* the fresh uuid chat_query makes when the request has none (main.py:81)
ConvIds == {"c1", "c2"}

\* POST /chat/query up to its await of run_graph (main.py:77-105): the
\* conversation is created if new, the user message is appended, and
\* run_graph is entered.  Timestamps are left out
ChatQuery(r, conv, msg) ==
    /\ mode[r] = "idle"
    /\ conversations' =
          LET known == IF conv \in DOMAIN conversations THEN conversations
                       ELSE (conv :> [id |-> conv, org_id |-> "org1", messages |-> <<>>])
                            @@ conversations
          IN  [known EXCEPT ![conv].messages =
                  Append(@, [role |-> "user", content |-> msg])]
    /\ mode' = [mode EXCEPT ![r] = "batch"]
    /\ state' = [state EXCEPT ![r] = GraphState("org1", conv, msg, <<>>)]
    /\ pc' = [pc EXCEPT ![r] = "router"]
    /\ UNCHANGED <<use_langgraph, provider, llm_memo, loc, events, result, trace>>

\* run_graph returns to chat_query, which appends the assistant message
\* without suspending in between (graph.py:247-251, main.py:105-120)
ChatReturn(r) ==
    /\ pc[r] = "return"
    /\ result' = [result EXCEPT ![r] =
                    [answer |-> state[r].answer, sources |-> state[r].sources,
                     metadata |-> state[r].metadata]]
    /\ conversations' =
          [conversations EXCEPT ![state[r].conversation_id].messages =
              Append(@, [role |-> "assistant", content |-> state[r].answer,
                         sources |-> state[r].sources])]
    /\ pc' = [pc EXCEPT ![r] = "done"]
    /\ UNCHANGED <<use_langgraph, provider, llm_memo, mode, state, loc, events, trace>>

\* chat_query requests, each a task of the event loop: they interleave at the
\* awaits inside run_graph
NextChat ==
    \E r \in Runs :
        \/ \E conv \in ConvIds : \E q \in Queries : ChatQuery(r, conv, q)
        \/ RouterNode(r)
        \/ RetrieveNode(r)
        \/ SynthesizeNode(r)
        \/ ActionNode(r)
        \/ ChatReturn(r)

SpecChat == Init /\ [][NextChat]_vars

\* the roles of the messages stored for the conversation, in order
Roles(conv) ==
    [k \in 1..Len(conversations[conv].messages) |-> conversations[conv].messages[k].role]

\* C20 (as claimed): in every reachable state, with concurrent requests for
\* one conversation included, the stored messages of every conversation
\* alternate user, assistant, user, assistant, ... starting with user.
C20_HistoryAlternates ==
    \A conv \in DOMAIN conversations :
        \A k \in 1..Len(Roles(conv)) :
            Roles(conv)[k] = IF k % 2 = 1 THEN "user" ELSE "assistant"

====
